---------------------------- MODULE Spec2Model ----------------------------
(***************************************************************************)
(* A model of the Hysteria2 core of sing-quic:                             *)
(*   - hysteria2 client  (src/unnamed/part_000): Client.offer / offerNew,  *)
(*     DialConn, ListenPacket, CloseWithError, clientQUICConnection,       *)
(*     clientConn;                                                         *)
(*   - hysteria2 service (src/hysteria2/service.go): serverSession         *)
(*     ServeHTTP, handleStream0, handleStream, closeWithError, serverConn. *)
(* The specifications share the variables: Spec (one Client used by        *)
(* concurrent goroutines), SpecServer (one serverSession), SpecServerConn  *)
(* and SpecClientConn (one stream conn each, driven in caller order),      *)
(* SpecOffer and SpecAuth (the congestion-control selection of each side   *)
(* over wider rates), SpecCancel (a session and the cancellation of the    *)
(* service context, fairly scheduled), and SpecScenario (a Client dialing  *)
(* a Service end to end).                                                  *)
(***************************************************************************)
EXTENDS Integers, Sequences, FiniteSets, TLC

\* ------------------------------------------------------------------ bounds
\* calls of DialConn, ListenPacket and CloseWithError made on the Client
MaxCalls == 3
\* runs of 2^32 - 1 back-to-back ListenPacket/Close pairs (ListenPacketCloseCycles)
MaxCycles == 1

\* one half of the uint32 udpSessionID: a value is <<hi, lo>> = hi * Half + lo
Half == 65536

\* the goroutines that call the Client concurrently
Callers == {1, 2}

\* -------------------------------------------------------------- variables
VARIABLES
    \* ---- Client (src/unnamed/part_000)
    c_udpDisabled,   \* Client.udpDisabled
    c_sendBPS,       \* Client.sendBPS
    c_receiveBPS,    \* Client.receiveBPS
    c_password,      \* Client.password
    srvResponse,     \* the AuthResponse the server at serverAddr answers with
    c_conn,          \* Client.conn: 0 is nil, i > 0 is conns[i]
    connHist,        \* every value Client.conn has held (what an unlocked read may see)
    connAccess,      \* Client.connAccess: 0 is unlocked, t > 0 is held by caller t
    conns,           \* the clientQUICConnections offerNew has stored, in order
    handles,         \* the packet conns ListenPacket has returned
    cycles,          \* ListenPacketCloseCycles steps taken
    calls,           \* calls made on the Client
    pc,              \* each caller's position
    op,              \* each caller's current or last operation
    cv,              \* each caller's local conn (offer's result)
    how,             \* how each caller's offer returned: "fast", "recheck", "dialed"
    sid,             \* ListenPacket's local sessionID
    ret              \* the last call to return: its caller and its result

clientVars == <<c_udpDisabled, c_sendBPS, c_receiveBPS, c_password, srvResponse,
                c_conn, connHist, connAccess,
                conns, handles, cycles, calls, pc, op, cv, how, sid, ret>>

VARIABLES
    \* ---- Service and serverSession (src/hysteria2/service.go)
    service,         \* the Service's options: sendBPS, receiveBPS,
                     \* ignoreClientBandwidth, udpDisabled, and whether
                     \* ctx.Done() is non-nil
    ctxCancelled,    \* Service.ctx has been cancelled
    userMap,         \* Service.userMap: password -> user
    authenticated,   \* serverSession.authenticated
    authUser,        \* serverSession.authUser ("" is the zero value)
    s_connDone,      \* serverSession.connDone is closed
    s_connErr,       \* serverSession.connErr
    s_quicConn,      \* serverSession.quicConn: "open" or "closed"
    s_closeRuns,     \* how often the closing body of closeWithError (lines
                     \* 268-276) has run
    authPost,        \* the auth POST that authenticated the session: the
                     \* locals of the goroutine that set authenticated first
    ccInstalls,      \* the congestion controllers installed on quicConn, in order
    propagators,     \* goroutines of lines 212-218 still waiting
    loops,           \* loopMessages goroutines started
    requests,        \* calls of ServeHTTP so far
    hpc,             \* each ServeHTTP goroutine's position
    hloc,            \* each ServeHTTP goroutine's locals
    lastResp,        \* the response ServeHTTP last completed
    streams,         \* calls of handleStream0 so far
    stream0,         \* the latest decision of handleStream0
    pending,         \* goroutines of lines 235-244 that have not run yet
    newConnection    \* handler.NewConnection: its calls, the user in ctx of
                     \* the latest call and of all calls

serverVars == <<service, ctxCancelled, userMap, authenticated, authUser,
                s_connDone, s_connErr, s_quicConn, s_closeRuns, authPost,
                ccInstalls, propagators, loops,
                requests, hpc, hloc, lastResp, streams, stream0, pending,
                newConnection>>

VARIABLES
    \* ---- serverConn (src/hysteria2/service.go)
    sc_responseWritten,  \* serverConn.responseWritten
    sc_stream,           \* the bytes the serverConn's stream has accepted
    sc_log               \* the calls made on the serverConn, in caller order

serverConnVars == <<sc_responseWritten, sc_stream, sc_log>>

VARIABLES
    \* ---- clientConn (src/unnamed/part_000)
    cc_requestWritten,   \* clientConn.requestWritten
    cc_responseRead,     \* clientConn.responseRead
    cc_stream,           \* the bytes the clientConn's stream has accepted
    cc_inbound,          \* the bytes the peer sends on the stream, not yet read
    cc_log               \* the calls made on the clientConn, in caller order

clientConnVars == <<cc_requestWritten, cc_responseRead, cc_stream, cc_inbound, cc_log>>

vars == <<clientVars, serverVars, serverConnVars, clientConnVars>>

\* --------------------------------------------------- protocol constants
StatusAuthOK == 233
StatusNotFound == 404

\* ------------------------------------------------------------ uint32 ids
Zero32 == <<0, 0>>
Max32 == <<Half - 1, Half - 1>>
\* x + 1 on a uint32
Inc32(x) ==
    IF x[2] = Half - 1 THEN <<(x[1] + 1) % Half, 0>> ELSE <<x[1], x[2] + 1>>
\* x + (2^32 - 1) on a uint32, which is x - 1
Add32AllButOne(x) ==
    IF x[2] = 0 THEN <<(x[1] + Half - 1) % Half, Half - 1>> ELSE <<x[1], x[2] - 1>>

\* ------------------------------------------------------- configuration
SendBPSValues == {40}
RxValues == {30}
AuthResponses == [UDPEnabled : BOOLEAN, Rx : RxValues, RxAuto : {FALSE}]
\* the options NewClient is given (lines 34-47)
ClientOptions ==
    [UDPDisabled : BOOLEAN, SendBPS : SendBPSValues, ReceiveBPS : {50},
     Password : {"p"}]
Errors == {"e1", "e2"}

\* offerNew's locals udpConn and quicConn
NoSocket == [raw |-> "none", quic |-> "none"]
DialedSocket == [raw |-> "open", quic |-> "none"]

\* a call's result: the error, the connection and handle returned, and what
\* became of the UDP socket and QUIC connection of a failed offerNew
Result(t, o, e, c, h, sock) ==
    [caller |-> t, op |-> o, err |-> e, conn |-> c, handle |-> h,
     raw |-> sock.raw, quic |-> sock.quic]
NoRet == Result(0, "none", "nil", 0, 0, NoSocket)

\* ---------------------------------------------- clientQUICConnection
\* clientQUICConnection.active: neither the QUIC context nor connDone is signalled
active(i) == ~conns[i].ctxDone /\ ~conns[i].connDone

\* conn != nil && conn.active()
nonNilActive(v) == v # 0 /\ active(v)

ClientCongestionUncapped(resp, sendBPS) ==
    IF ~resp.RxAuto /\ resp.Rx > 0
    THEN [kind |-> "brutal", bps |-> resp.Rx]
    ELSE [kind |-> "bbr", bps |-> 0]

\* the congestion controller offerNew installs for an AuthResponse
ClientCongestion(resp, sendBPS) ==
    LET actualTx == IF resp.Rx = 0 \/ resp.Rx > sendBPS THEN sendBPS ELSE resp.Rx
    IN  IF ~resp.RxAuto /\ actualTx > 0
        THEN [kind |-> "brutal", bps |-> actualTx]
        ELSE [kind |-> "bbr", bps |-> 0]


\* NewClient, lines 68-94: the Client after construction, its options drawn from
\* O and the server it will dial answering with a response of R
InitClient(O, R) ==
    /\ \E options \in O :
         /\ c_udpDisabled = options.UDPDisabled
         /\ c_sendBPS = options.SendBPS
         /\ c_receiveBPS = options.ReceiveBPS
         /\ c_password = options.Password
    /\ srvResponse \in R
    /\ c_conn = 0
    /\ connHist = {0}
    /\ connAccess = 0
    /\ conns = <<>>
    /\ handles = <<>>
    /\ cycles = 0
    /\ calls = 0
    /\ pc = [t \in Callers |-> "idle"]
    /\ op = [t \in Callers |-> "none"]
    /\ cv = [t \in Callers |-> 0]
    /\ how = [t \in Callers |-> "none"]
    /\ sid = [t \in Callers |-> Zero32]
    /\ ret = NoRet

\* ------------------------------------------------------------ Client.offer
\* the caller's call returns: record the result, back to idle
Return(t, r) ==
    /\ ret' = r
    /\ pc' = [pc EXCEPT ![t] = "idle"]
    /\ op' = [op EXCEPT ![t] = "none"]
    /\ cv' = [cv EXCEPT ![t] = 0]
    /\ how' = [how EXCEPT ![t] = "none"]
    /\ sid' = [sid EXCEPT ![t] = Zero32]

\* what an unlocked read of Client.conn may observe: Client.conn is written
\* under connAccess (line 176) and read without it (lines 97, 222), so the read
\* races with the write and may return the current or an earlier pointer
unlockedConnRead == connHist

\* DialConn, line 181: the call begins and enters offer
DialConn(t) ==
    /\ pc[t] = "idle"
    /\ calls < MaxCalls
    /\ calls' = calls + 1
    /\ op' = [op EXCEPT ![t] = "DialConn"]
    /\ pc' = [pc EXCEPT ![t] = "offer"]
    /\ UNCHANGED <<serverVars, serverConnVars, clientConnVars>>
    /\ UNCHANGED <<c_udpDisabled, c_sendBPS, c_receiveBPS, c_password,
                   srvResponse, c_conn, connHist,
                   connAccess, conns, handles, cycles, cv, how, sid, ret>>

\* ListenPacket, lines 195-199: Invalid when UDP is locally disabled, else offer
ListenPacket(t) ==
    /\ pc[t] = "idle"
    /\ calls < MaxCalls
    /\ calls' = calls + 1
    /\ IF c_udpDisabled
       THEN /\ ret' = Result(t, "ListenPacket", "Invalid", 0, 0, NoSocket)
            /\ UNCHANGED <<pc, op>>
       ELSE /\ pc' = [pc EXCEPT ![t] = "offer"]
            /\ op' = [op EXCEPT ![t] = "ListenPacket"]
            /\ ret' = ret
    /\ UNCHANGED <<serverVars, serverConnVars, clientConnVars>>
    /\ UNCHANGED <<c_udpDisabled, c_sendBPS, c_receiveBPS, c_password,
                   srvResponse, c_conn, connHist,
                   connAccess, conns, handles, cycles, cv, how, sid>>

\* offer, lines 97-100: the check without the lock
offer(t) ==
    /\ pc[t] = "offer"
    /\ \E v \in unlockedConnRead :
         IF nonNilActive(v)
         THEN /\ cv' = [cv EXCEPT ![t] = v]
              /\ how' = [how EXCEPT ![t] = "fast"]
              /\ pc' = [pc EXCEPT ![t] = "offered"]
         ELSE /\ pc' = [pc EXCEPT ![t] = "lock"]
              /\ UNCHANGED <<cv, how>>
    /\ UNCHANGED <<serverVars, serverConnVars, clientConnVars>>
    /\ UNCHANGED <<c_udpDisabled, c_sendBPS, c_receiveBPS, c_password,
                   srvResponse, c_conn, connHist,
                   connAccess, conns, handles, cycles, calls, op, sid, ret>>

recheckSkipped(v) == FALSE

\* offer, lines 103-104: the condition of the check under the lock
recheckActive(v) == nonNilActive(v)

\* offer, lines 101-107: c.connAccess.Lock(), the re-check under the lock; a hit
\* returns (the deferred Unlock runs), a miss goes on to offerNew with the lock held
offer_Locked(t) ==
    /\ pc[t] = "lock"
    /\ connAccess = 0
    /\ IF recheckActive(c_conn)
       THEN /\ cv' = [cv EXCEPT ![t] = c_conn]
            /\ how' = [how EXCEPT ![t] = "recheck"]
            /\ pc' = [pc EXCEPT ![t] = "offered"]
            /\ connAccess' = 0
       ELSE /\ pc' = [pc EXCEPT ![t] = "offerNew"]
            /\ connAccess' = t
            /\ UNCHANGED <<cv, how>>
    /\ UNCHANGED <<serverVars, serverConnVars, clientConnVars>>
    /\ UNCHANGED <<c_udpDisabled, c_sendBPS, c_receiveBPS, c_password,
                   srvResponse, c_conn, connHist,
                   conns, handles, cycles, calls, op, sid, ret>>

\* --------------------------------------------------------- Client.offerNew
offerNewFailedLeak(sock, quicSet) ==
    [raw |-> sock.raw, quic |-> IF quicSet THEN "closed" ELSE "none"]

\* offerNew, lines 141-154: the failure paths close the QUIC connection when the
\* transport's Dial had set it, and the UDP socket
offerNewFailed(sock, quicSet) ==
    [raw |-> "closed", quic |-> IF quicSet THEN "closed" ELSE "none"]

authFailedNever(status) == FALSE

\* offerNew, line 148: response.StatusCode != protocol.StatusAuthOK
authFailed(status) == status # StatusAuthOK

udpDisabledLocalOnly(resp) == c_udpDisabled

\* offerNew, line 170: c.udpDisabled || !authResponse.UDPEnabled
udpDisabledFor(resp) == c_udpDisabled \/ ~resp.UDPEnabled

\* offerNew, lines 173-175: whether go c.loopMessages(conn) runs
loopMessagesSpawned(resp) == ~c_udpDisabled

\* offerNew, lines 155-177: the clientQUICConnection built from the response
\* (authStatus and authUDP keep the response's status and Hysteria-UDP header;
\* cc holds the congestion controllers installed on quicConn, in order; loop is
\* whether loopMessages was started; closeCalls, firstErr, doneCloses and
\* quicCloses record the closeWithError calls made on the connection, the error
\* of the first, the closes of connDone and the calls of quicConn.CloseWithError)
offerNewConn(sock, status, resp) ==
    [raw |-> sock.raw, quic |-> "open", ctxDone |-> FALSE,
     connDone |-> FALSE, connErr |-> "nil",
     udpDisabled |-> udpDisabledFor(resp),
     authStatus |-> status,
     authUDP |-> resp.UDPEnabled,
     udpAccess |-> 0, udpSessionID |-> Zero32, udpConnMap |-> {},
     wrapped |-> FALSE,
     cc |-> <<ClientCongestion(resp, c_sendBPS)>>,
     loop |-> loopMessagesSpawned(resp),
     closeOnce |-> FALSE, closeCalls |-> 0, firstErr |-> "nil",
     doneCloses |-> 0, quicCloses |-> <<>>]

\* offerNew, lines 114-178, called by offer at line 107 with connAccess held:
\* DialContext, CreateTransport (qtls.CreateTransport returns no error), the auth
\* round trip, which fails or is answered with a status of S and the
\* AuthResponse resp, and on StatusAuthOK the store of c.conn; offer's deferred
\* Unlock runs as it returns
offerNewRoundTrip(t, S, resp) ==
    /\ pc[t] = "offerNew"
    /\ connAccess' = 0
    /\ \/ /\ Return(t, Result(t, op[t], "DialFailure", 0, 0, NoSocket))
          /\ UNCHANGED <<c_conn, connHist, conns>>
       \/ \E quicSet \in BOOLEAN :
            /\ Return(t, Result(t, op[t], "RoundTripFailure", 0, 0,
                                offerNewFailed(DialedSocket, quicSet)))
            /\ UNCHANGED <<c_conn, connHist, conns>>
       \/ \E status \in S :
            IF authFailed(status)
            THEN /\ Return(t, Result(t, op[t], "AuthenticationFailed", 0, 0,
                                     offerNewFailed(DialedSocket, TRUE)))
                 /\ UNCHANGED <<c_conn, connHist, conns>>
            ELSE /\ conns' = Append(conns, offerNewConn(DialedSocket, status, resp))
                 /\ c_conn' = Len(conns) + 1
                 /\ connHist' = connHist \cup {Len(conns) + 1}
                 /\ cv' = [cv EXCEPT ![t] = Len(conns) + 1]
                 /\ how' = [how EXCEPT ![t] = "dialed"]
                 /\ pc' = [pc EXCEPT ![t] = "offered"]
                 /\ UNCHANGED <<ret, op, sid>>
    /\ UNCHANGED <<serverVars, serverConnVars, clientConnVars>>
    /\ UNCHANGED <<c_udpDisabled, c_sendBPS, c_receiveBPS, c_password,
                   srvResponse, handles, cycles, calls>>

\* offerNew against a server that answers the auth POST with StatusAuthOK and
\* srvResponse, or with the masquerade handler's status
offerNew(t) == offerNewRoundTrip(t, {StatusAuthOK, StatusNotFound}, srvResponse)

\* DialConn, lines 185-192: open the stream on the connection offer returned
DialConn_OpenStream(t) ==
    /\ pc[t] = "offered"
    /\ op[t] = "DialConn"
    /\ Return(t, Result(t, "DialConn",
                        IF conns[cv[t]].ctxDone THEN "OpenStreamFailure" ELSE "nil",
                        cv[t], 0, NoSocket))
    /\ UNCHANGED <<serverVars, serverConnVars, clientConnVars>>
    /\ UNCHANGED <<c_udpDisabled, c_sendBPS, c_receiveBPS, c_password,
                   srvResponse, c_conn, connHist,
                   connAccess, conns, handles, cycles, calls>>

\* ------------------------------------------------------ Client.ListenPacket
\* ListenPacket, lines 203-205
ListenPacket_Check(t) ==
    /\ pc[t] = "offered"
    /\ op[t] = "ListenPacket"
    /\ IF conns[cv[t]].udpDisabled
       THEN Return(t, Result(t, "ListenPacket", "UDPDisabledByServer",
                             cv[t], 0, NoSocket))
       ELSE /\ pc' = [pc EXCEPT ![t] = "lp_lock"]
            /\ UNCHANGED <<ret, op, cv, how, sid>>
    /\ UNCHANGED <<serverVars, serverConnVars, clientConnVars>>
    /\ UNCHANGED <<c_udpDisabled, c_sendBPS, c_receiveBPS, c_password,
                   srvResponse, c_conn, connHist,
                   connAccess, conns, handles, cycles, calls>>

ListenPacket_LockNoMutex(t) ==
    /\ pc[t] = "lp_lock"
    /\ sid' = [sid EXCEPT ![t] = conns[cv[t]].udpSessionID]
    /\ pc' = [pc EXCEPT ![t] = "lp_put"]
    /\ UNCHANGED <<serverVars, serverConnVars, clientConnVars>>
    /\ UNCHANGED <<c_udpDisabled, c_sendBPS, c_receiveBPS, c_password,
                   srvResponse, c_conn, connHist,
                   connAccess, conns, handles, cycles, calls, op, cv, how, ret>>

\* ListenPacket, lines 212-213: conn.udpAccess.Lock(), then
\* sessionID = conn.udpSessionID
ListenPacket_Lock(t) ==
    /\ pc[t] = "lp_lock"
    /\ conns[cv[t]].udpAccess = 0
    /\ conns' = [conns EXCEPT ![cv[t]].udpAccess = t]
    /\ sid' = [sid EXCEPT ![t] = conns[cv[t]].udpSessionID]
    /\ pc' = [pc EXCEPT ![t] = "lp_put"]
    /\ UNCHANGED <<serverVars, serverConnVars, clientConnVars>>
    /\ UNCHANGED <<c_udpDisabled, c_sendBPS, c_receiveBPS, c_password,
                   srvResponse, c_conn, connHist,
                   connAccess, handles, cycles, calls, op, cv, how, ret>>

\* a Go map store: the entry of key id is replaced
MapPut(m, id, h) == {e \in m : e[1] # id} \cup {<<id, h>>}
\* delete(m, id) with the closure's sessionID still at its zero value
MapDeleteZero(m, id) == {e \in m : e[1] # Zero32}
\* delete(m, id)
MapDelete(m, id) == {e \in m : e[1] # id}

\* ListenPacket, lines 214-218: conn.udpSessionID++, the insert, the unlock, and
\* the return of the handle
ListenPacket_Put(t) ==
    /\ pc[t] = "lp_put"
    /\ LET h == Len(handles) + 1 IN
       /\ conns' = [conns EXCEPT
                      ![cv[t]].udpSessionID = Inc32(@),
                      ![cv[t]].wrapped = @ \/ conns[cv[t]].udpSessionID = Max32,
                      ![cv[t]].udpConnMap = MapPut(@, sid[t], h),
                      ![cv[t]].udpAccess = 0]
       /\ handles' = Append(handles, [conn |-> cv[t], id |-> sid[t], closed |-> FALSE])
       /\ Return(t, Result(t, "ListenPacket", "nil", cv[t], h, NoSocket))
    /\ UNCHANGED <<serverVars, serverConnVars, clientConnVars>>
    /\ UNCHANGED <<c_udpDisabled, c_sendBPS, c_receiveBPS, c_password,
                   srvResponse, c_conn, connHist,
                   connAccess, cycles, calls>>

\* the close callback ListenPacket hands to newUDPPacketConn, lines 207-211,
\* run when the handle is closed
udpPacketConn_Close(h) ==
    /\ ~handles[h].closed
    /\ conns[handles[h].conn].udpAccess = 0
    /\ conns' = [conns EXCEPT
                   ![handles[h].conn].udpConnMap = MapDelete(@, handles[h].id)]
    /\ handles' = [handles EXCEPT ![h].closed = TRUE]
    /\ UNCHANGED <<serverVars, serverConnVars, clientConnVars>>
    /\ UNCHANGED <<c_udpDisabled, c_sendBPS, c_receiveBPS, c_password,
                   srvResponse, c_conn, connHist,
                   connAccess, cycles, calls, pc, op, cv, how, sid, ret>>

\* 2^32 - 1 ListenPacket calls in a row on the stored connection by one more
\* goroutine, each handle closed before the next call (lines 212-216, then
\* 208-210, repeated): the ids s .. s + 2^32 - 2 are stored and deleted, so only
\* the entry of id s - 1 survives, and the counter ends at s - 1
ListenPacketCloseCycles(i) ==
    /\ cycles < MaxCycles
    /\ c_conn = i
    /\ active(i)
    /\ ~c_udpDisabled
    /\ ~conns[i].udpDisabled
    /\ conns[i].udpAccess = 0
    /\ cycles' = cycles + 1
    /\ LET s == conns[i].udpSessionID IN
       conns' = [conns EXCEPT
                   ![i].udpSessionID = Add32AllButOne(s),
                   ![i].udpConnMap = {e \in @ : e[1] = Add32AllButOne(s)},
                   ![i].wrapped = @ \/ s # Zero32]
    /\ UNCHANGED <<serverVars, serverConnVars, clientConnVars>>
    /\ UNCHANGED <<c_udpDisabled, c_sendBPS, c_receiveBPS, c_password,
                   srvResponse, c_conn, connHist,
                   connAccess, handles, calls, pc, op, cv, how, sid, ret>>

\* ---------------------------------------------------------- closing
\* quicConn.CloseWithError(0, ""), lines 143, 150 and 259: the arguments
QuicCloseArgs == [code |-> 0, reason |-> ""]

closeOnce_DoAlways(c) == TRUE

\* c.closeOnce.Do, line 256: whether this call runs the function
closeOnce_Do(c) == ~c.closeOnce

\* clientQUICConnection.closeWithError, lines 255-261: the first call runs the
\* body (the error, close(connDone), the QUIC close, which ends the QUIC
\* context); rawConn is not touched
clientQUICConnection_closeWithError(i, err) ==
    LET c == [conns[i] EXCEPT !.closeCalls = @ + 1,
                              !.firstErr = IF conns[i].closeCalls = 0 THEN err ELSE @]
    IN  IF closeOnce_Do(conns[i])
        THEN [c EXCEPT !.closeOnce = TRUE,
                       !.connErr = err, !.connDone = TRUE,
                       !.doneCloses = @ + 1,
                       !.quic = "closed", !.ctxDone = TRUE,
                       !.quicCloses = Append(@, QuicCloseArgs)]
        ELSE c

\* Client.CloseWithError, lines 221-227
Client_CloseWithError(t) ==
    /\ pc[t] = "idle"
    /\ calls < MaxCalls
    /\ calls' = calls + 1
    /\ \E v \in unlockedConnRead, err \in Errors :
         IF v # 0
         THEN conns' = [conns EXCEPT ![v] = clientQUICConnection_closeWithError(v, err)]
         ELSE conns' = conns
    /\ ret' = Result(t, "CloseWithError", "nil", 0, 0, NoSocket)
    /\ UNCHANGED <<serverVars, serverConnVars, clientConnVars>>
    /\ UNCHANGED <<c_udpDisabled, c_sendBPS, c_receiveBPS, c_password,
                   srvResponse, c_conn, connHist,
                   connAccess, handles, cycles, pc, op, cv, how, sid>>

\* the QUIC stack cancels the connection's context (idle timeout, peer close)
QuicContextDone(i) ==
    /\ ~conns[i].ctxDone
    /\ conns' = [conns EXCEPT ![i].ctxDone = TRUE]
    /\ UNCHANGED <<serverVars, serverConnVars, clientConnVars>>
    /\ UNCHANGED <<c_udpDisabled, c_sendBPS, c_receiveBPS, c_password,
                   srvResponse, c_conn, connHist,
                   connAccess, handles, cycles, calls, pc, op, cv, how, sid, ret>>

\* ================================================================ Service
\* what the peer sends on the connection: requests ServeHTTP is called with and
\* streams handed to handleStream0, together
MaxArrivals == 3

\* the goroutines the HTTP/3 server runs ServeHTTP on
Handlers == {1, 2}

\* net/http and protocol constants of the auth URL
MethodPost == "POST"
URLHost == "hysteria"
URLPath == "/auth"
\* protocol.FrameTypeTCPRequest, the varint that starts a TCP request, and the
\* type of some other frame
FrameTypeTCPRequest == 1025
OtherFrameType == 65

\* the zero value of the user type U
NoUser == ""

\* the options NewService is given (lines 81-95); ctxDone: options.Context has
\* a non-nil Done channel
ServiceOptions ==
    [sendBPS : {20}, receiveBPS : {50}, ignoreClientBandwidth : BOOLEAN,
     udpDisabled : BOOLEAN, ctxDone : BOOLEAN]

\* the (userList, passwordList) arguments of UpdateUsers
UserLists ==
    { <<<<"u1">>, <<"p">>>>,
      <<<<"u1", "u2", "u1">>, <<"p", "p", "q">>>> }

\* UpdateUsers, lines 99-102: a later entry of a password replaces an earlier one
UserMapOf(userList, passwordList) ==
    [pw \in {passwordList[i] : i \in 1 .. Len(userList)} |->
        userList[CHOOSE i \in 1 .. Len(userList) :
                    /\ passwordList[i] = pw
                    /\ \A j \in 1 .. Len(userList) : passwordList[j] = pw => j <= i]]

\* the requests: auth POSTs with each password and rate, and requests that
\* differ from the auth URL in method, host or path while carrying a password
Requests ==
    [method : {MethodPost}, host : {URLHost}, path : {URLPath},
     auth : {"p", "q"}, rx : {30}]
    \cup {[method |-> "GET", host |-> URLHost, path |-> URLPath, auth |-> "p", rx |-> 0],
          [method |-> MethodPost, host |-> "example.org", path |-> URLPath, auth |-> "p", rx |-> 0],
          [method |-> MethodPost, host |-> URLHost, path |-> "/", auth |-> "p", rx |-> 0]}
NoRequest == [method |-> "", host |-> "", path |-> "", auth |-> "", rx |-> 0]

\* ServeHTTP, line 176
urlMatches(r) == r.method = MethodPost /\ r.host = URLHost /\ r.path = URLPath

\* ServeHTTP, lines 178-182 and 205-209: the AuthResponse put in the headers
AuthResponseToHeader ==
    [UDPEnabled |-> ~service.udpDisabled, Rx |-> service.receiveBPS,
     RxAuto |-> service.ignoreClientBandwidth]
NoHeader == [UDPEnabled |-> FALSE, Rx |-> 0, RxAuto |-> FALSE]

\* a ServeHTTP goroutine's locals: the request, user (line 187), and what the
\* goroutine found: whether s.authenticated was set when it tested it (line
\* 177) and whether the Hysteria-Auth value was a key of the user map when it
\* looked it up (line 187)
Locals(r, user, authSeen, known) ==
    [req |-> r, user |-> user, authSeen |-> authSeen, known |-> known]
NoLocals == Locals(NoRequest, NoUser, FALSE, FALSE)

\* a completed ServeHTTP call: whether the request was on the auth URL, what the
\* goroutine found, who answered (the masquerade handler, the replay branch or
\* the auth branch), the status and the headers
Response(l, via, status, header) ==
    [matches |-> urlMatches(l.req), authSeen |-> l.authSeen, known |-> l.known,
     via |-> via, status |-> status, header |-> header]
NoResponse == [matches |-> FALSE, authSeen |-> FALSE, known |-> FALSE,
               via |-> "none", status |-> 0, header |-> NoHeader]

\* s.masqueradeHandler.ServeHTTP(w, r), lines 189 and 224, with the default
\* handler of NewService (lines 78-80)
masqueradeHandler_ServeHTTP(l) ==
    Response(l, "masquerade", StatusNotFound, NoHeader)

\* ServeHTTP, lines 178-183 and 205-210
WriteAuthOK(l, via) ==
    Response(l, via, StatusAuthOK, AuthResponseToHeader)

\* a Go map read: user, loaded := m[k]
MapGet(m, k) == IF k \in DOMAIN m THEN m[k] ELSE NoUser

loadedAlways(pw) == TRUE

\* ServeHTTP, lines 187-188
loaded(pw) == pw \in DOMAIN userMap

replayNever == FALSE

\* ServeHTTP, line 177
alreadyAuthenticated == authenticated

ServerCongestionUncapped(r) ==
    IF ~service.ignoreClientBandwidth /\ r.rx > 0
    THEN [kind |-> "brutal", bps |-> r.rx]
    ELSE [kind |-> "bbr", bps |-> 0]

\* ServeHTTP, lines 194-204: the congestion controller installed for a request
ServerCongestion(r) ==
    IF ~service.ignoreClientBandwidth /\ r.rx > 0
    THEN [kind |-> "brutal",
          bps |-> IF service.sendBPS > 0 /\ service.sendBPS < r.rx
                  THEN service.sendBPS ELSE r.rx]
    ELSE [kind |-> "bbr", bps |-> 0]

\* the latest decision of handleStream0, and the latest NewConnection call
NoStream0 == [frameType |-> 0, err |-> "nil", authenticated |-> FALSE, hijacked |-> FALSE]
NoNewConnection == [calls |-> 0, user |-> NoUser, users |-> {}]

\* NewService, lines 66-96, and handleConnection, lines 145-152: the Service and
\* one serverSession after construction, the options drawn from O
InitService(O) ==
    /\ service \in O
    /\ ctxCancelled = FALSE
    /\ userMap = <<>>
    /\ authenticated = FALSE
    /\ authUser = NoUser
    /\ s_connDone = FALSE
    /\ s_connErr = "nil"
    /\ s_quicConn = "open"
    /\ s_closeRuns = 0
    /\ authPost = NoLocals
    /\ ccInstalls = <<>>
    /\ propagators = 0
    /\ loops = 0
    /\ requests = 0
    /\ hpc = [h \in Handlers |-> "idle"]
    /\ hloc = [h \in Handlers |-> NoLocals]
    /\ lastResp = NoResponse
    /\ streams = 0
    /\ stream0 = NoStream0
    /\ pending = 0
    /\ newConnection = NoNewConnection

\* UpdateUsers, lines 98-104
UpdateUsers(userList, passwordList) ==
    /\ userMap' = UserMapOf(userList, passwordList)
    /\ UNCHANGED <<clientVars, serverConnVars, clientConnVars>>
    /\ UNCHANGED <<service, ctxCancelled, authenticated, authUser,
                   s_connDone, s_connErr, s_quicConn, ccInstalls, propagators, loops,
                   requests, hpc, hloc, lastResp, streams, stream0, pending,
                   newConnection,
                   authPost, s_closeRuns>>

\* ServeHTTP, lines 175-185 and 223-225: the URL test, and on the auth URL the
\* test of s.authenticated; a request off the auth URL goes to the masquerade
\* handler, an auth request on an authenticated session is answered again
ServeHTTP(h, r) ==
    /\ hpc[h] = "idle"
    /\ requests + streams < MaxArrivals
    /\ s_quicConn = "open"
    /\ requests' = requests + 1
    /\ LET l == Locals(r, NoUser, authenticated, r.auth \in DOMAIN userMap) IN
       IF ~urlMatches(r)
       THEN /\ lastResp' = masqueradeHandler_ServeHTTP(l)
            /\ UNCHANGED <<hpc, hloc>>
       ELSE IF alreadyAuthenticated
       THEN /\ lastResp' = WriteAuthOK(l, "replay")
            /\ UNCHANGED <<hpc, hloc>>
       ELSE /\ hpc' = [hpc EXCEPT ![h] = "lookup"]
            /\ hloc' = [hloc EXCEPT ![h] = l]
            /\ lastResp' = lastResp
    /\ UNCHANGED <<clientVars, serverConnVars, clientConnVars>>
    /\ UNCHANGED <<service, ctxCancelled, userMap, authenticated, authUser,
                   s_connDone, s_connErr, s_quicConn, ccInstalls, propagators, loops,
                   streams, stream0, pending, newConnection,
                   authPost, s_closeRuns>>

\* ServeHTTP, lines 186-191: the lookup of the Hysteria-Auth value; a miss goes
\* to the masquerade handler
ServeHTTP_Lookup(h) ==
    /\ hpc[h] = "lookup"
    /\ LET pw == hloc[h].req.auth
           l == [hloc[h] EXCEPT !.user = MapGet(userMap, pw),
                                !.known = pw \in DOMAIN userMap] IN
       IF loaded(pw)
       THEN /\ hloc' = [hloc EXCEPT ![h] = l]
            /\ hpc' = [hpc EXCEPT ![h] = "setUser"]
            /\ lastResp' = lastResp
       ELSE /\ lastResp' = masqueradeHandler_ServeHTTP(l)
            /\ hpc' = [hpc EXCEPT ![h] = "idle"]
            /\ hloc' = [hloc EXCEPT ![h] = NoLocals]
    /\ UNCHANGED <<clientVars, serverConnVars, clientConnVars>>
    /\ UNCHANGED <<service, ctxCancelled, userMap, authenticated, authUser,
                   s_connDone, s_connErr, s_quicConn, ccInstalls, propagators, loops,
                   requests, streams, stream0, pending, newConnection,
                   authPost, s_closeRuns>>

\* ServeHTTP, line 192
ServeHTTP_SetUser(h) ==
    /\ hpc[h] = "setUser"
    /\ authUser' = hloc[h].user
    /\ hpc' = [hpc EXCEPT ![h] = "setAuth"]
    /\ UNCHANGED <<clientVars, serverConnVars, clientConnVars>>
    /\ UNCHANGED <<service, ctxCancelled, userMap, authenticated,
                   s_connDone, s_connErr, s_quicConn, ccInstalls, propagators, loops,
                   requests, hloc, lastResp, streams, stream0, pending, newConnection,
                   authPost, s_closeRuns>>

\* ServeHTTP, line 193
ServeHTTP_SetAuthenticated(h) ==
    /\ hpc[h] = "setAuth"
    /\ authenticated' = TRUE
    /\ authPost' = IF authenticated THEN authPost ELSE hloc[h]
    /\ hpc' = [hpc EXCEPT ![h] = "setCC"]
    /\ UNCHANGED <<clientVars, serverConnVars, clientConnVars>>
    /\ UNCHANGED <<service, ctxCancelled, userMap, authUser,
                   s_connDone, s_connErr, s_quicConn, ccInstalls, propagators, loops,
                   requests, hloc, lastResp, streams, stream0, pending, newConnection,
                   s_closeRuns>>

\* ServeHTTP, lines 194-204
ServeHTTP_SetCongestionControl(h) ==
    /\ hpc[h] = "setCC"
    /\ ccInstalls' = Append(ccInstalls, ServerCongestion(hloc[h].req))
    /\ hpc' = [hpc EXCEPT ![h] = "respond"]
    /\ UNCHANGED <<clientVars, serverConnVars, clientConnVars>>
    /\ UNCHANGED <<service, ctxCancelled, userMap, authenticated, authUser,
                   s_connDone, s_connErr, s_quicConn, propagators, loops,
                   requests, hloc, lastResp, streams, stream0, pending, newConnection,
                   authPost, s_closeRuns>>

\* ServeHTTP, lines 205-222: the response, the goroutine that closes the session
\* when the service context ends, and loopMessages
ServeHTTP_Respond(h) ==
    /\ hpc[h] = "respond"
    /\ lastResp' = WriteAuthOK(hloc[h], "auth")
    /\ propagators' = IF service.ctxDone THEN propagators + 1 ELSE propagators
    /\ loops' = IF ~service.udpDisabled THEN loops + 1 ELSE loops
    /\ hpc' = [hpc EXCEPT ![h] = "idle"]
    /\ hloc' = [hloc EXCEPT ![h] = NoLocals]
    /\ UNCHANGED <<clientVars, serverConnVars, clientConnVars>>
    /\ UNCHANGED <<service, ctxCancelled, userMap, authenticated, authUser,
                   s_connDone, s_connErr, s_quicConn, ccInstalls,
                   requests, streams, stream0, pending, newConnection,
                   authPost, s_closeRuns>>

connDoneNeverSeen == FALSE

\* closeWithError, lines 264-266: case <-s.connDone
connDoneSeen == s_connDone

\* serverSession.closeWithError, lines 261-277, under connAccess: the body runs
\* once; the result is <<connDone, connErr, quicConn, closeRuns>>
serverSession_closeWithError(err) ==
    IF connDoneSeen
    THEN <<s_connDone, s_connErr, s_quicConn, s_closeRuns>>
    ELSE <<TRUE, err, "closed", s_closeRuns + 1>>

\* the service context is cancelled
ContextCancel ==
    /\ service.ctxDone
    /\ ~ctxCancelled
    /\ ctxCancelled' = TRUE
    /\ UNCHANGED <<clientVars, serverConnVars, clientConnVars>>
    /\ UNCHANGED <<service, userMap, authenticated, authUser,
                   s_connDone, s_connErr, s_quicConn, ccInstalls, propagators, loops,
                   requests, hpc, hloc, lastResp, streams, stream0, pending,
                   newConnection,
                   authPost, s_closeRuns>>

\* the goroutine of lines 212-218, case <-s.ctx.Done()
Propagator_ContextDone ==
    /\ propagators > 0
    /\ ctxCancelled
    /\ propagators' = propagators - 1
    /\ LET closed == serverSession_closeWithError("canceled") IN
       /\ s_connDone' = closed[1]
       /\ s_connErr' = closed[2]
       /\ s_quicConn' = closed[3]
       /\ s_closeRuns' = closed[4]
    /\ UNCHANGED <<clientVars, serverConnVars, clientConnVars>>
    /\ UNCHANGED <<service, ctxCancelled, userMap, authenticated, authUser,
                   ccInstalls, loops, requests, hpc, hloc, lastResp, streams, stream0,
                   pending, newConnection,
                   authPost>>

\* the goroutine of lines 212-218, case <-s.connDone
Propagator_ConnDone ==
    /\ propagators > 0
    /\ s_connDone
    /\ propagators' = propagators - 1
    /\ UNCHANGED <<clientVars, serverConnVars, clientConnVars>>
    /\ UNCHANGED <<service, ctxCancelled, userMap, authenticated, authUser,
                   s_connDone, s_connErr, s_quicConn, ccInstalls, loops,
                   requests, hpc, hloc, lastResp, streams, stream0, pending,
                   newConnection,
                   authPost, s_closeRuns>>

\* handleConnection, lines 157-158: ServeQUICConn returns when the connection
\* ends, and the connection is closed
handleConnection_Return ==
    /\ s_quicConn = "open"
    /\ s_quicConn' = "closed"
    /\ UNCHANGED <<clientVars, serverConnVars, clientConnVars>>
    /\ UNCHANGED <<service, ctxCancelled, userMap, authenticated, authUser,
                   s_connDone, s_connErr, ccInstalls, propagators, loops,
                   requests, hpc, hloc, lastResp, streams, stream0, pending,
                   newConnection,
                   authPost, s_closeRuns>>

hijackUnauthenticated(auth, frameType, err) ==
    err = "nil" /\ frameType = FrameTypeTCPRequest

\* handleStream0, lines 229-234: whether the stream is taken
hijack(auth, frameType, err) ==
    IF ~auth \/ err # "nil" THEN FALSE
    ELSE IF frameType # FrameTypeTCPRequest THEN FALSE
    ELSE TRUE

\* handleStream0, lines 228-246: the decision, and for a stream that is taken the
\* goroutine that runs handleStream
handleStream0(frameType, err) ==
    /\ requests + streams < MaxArrivals
    /\ s_quicConn = "open"
    /\ streams' = streams + 1
    /\ LET taken == hijack(authenticated, frameType, err) IN
       /\ stream0' = [frameType |-> frameType, err |-> err,
                      authenticated |-> authenticated, hijacked |-> taken]
       /\ pending' = IF taken THEN pending + 1 ELSE pending
    /\ UNCHANGED <<clientVars, serverConnVars, clientConnVars>>
    /\ UNCHANGED <<service, ctxCancelled, userMap, authenticated, authUser,
                   s_connDone, s_connErr, s_quicConn, ccInstalls, propagators, loops,
                   requests, hpc, hloc, lastResp, newConnection,
                   authPost, s_closeRuns>>

\* handleStream, lines 248-259, run by the goroutine of a taken stream:
\* ReadTCPRequest, then handler.NewConnection with the context of s.authUser
handleStream ==
    /\ pending > 0
    /\ pending' = pending - 1
    /\ \E readOK \in BOOLEAN :
         newConnection' = IF readOK
                          THEN [calls |-> newConnection.calls + 1, user |-> authUser,
                                users |-> newConnection.users \cup {authUser}]
                          ELSE newConnection
    /\ UNCHANGED <<clientVars, serverConnVars, clientConnVars>>
    /\ UNCHANGED <<service, ctxCancelled, userMap, authenticated, authUser,
                   s_connDone, s_connErr, s_quicConn, ccInstalls, propagators, loops,
                   requests, hpc, hloc, lastResp, streams, stream0,
                   authPost, s_closeRuns>>

\* ============================================================= stream conns
\* calls made on one serverConn, and on one clientConn
MaxConnCalls == 3

\* bytes are small numbers; what callers write, the messages of the errors given
\* to HandshakeFailure, the padding the codec adds, the clientConn's destination
Payloads == {<<>>, <<5>>, <<5, 6>>}
Messages == {<<7>>}
Paddings == {<<>>, <<9>>}
Destination == <<3, 4>>

\* protocol.WriteTCPResponse: status byte (0 is OK), length-prefixed message,
\* length-prefixed padding, then the payload
WriteTCPResponse(ok, message, payload, padding) ==
    <<IF ok THEN 0 ELSE 1>> \o <<Len(message)>> \o message
        \o <<Len(padding)>> \o padding \o payload

\* protocol.WriteTCPRequest: the frame type, length-prefixed destination,
\* length-prefixed padding, then the payload
WriteTCPRequest(destination, payload, padding) ==
    <<FrameTypeTCPRequest>> \o <<Len(destination)>> \o destination
        \o <<Len(padding)>> \o padding \o payload

\* protocol.ReadTCPResponse on a stream whose remaining bytes are s (then EOF):
\* the status, the message, and what is left on the stream; a short read is an
\* error that has consumed the stream
ReadTCPResponse(s) ==
    LET short == [err |-> "err", ok |-> FALSE, message |-> <<>>, rest |-> <<>>] IN
    IF Len(s) < 2 THEN short
    ELSE LET m == s[2] IN
         IF Len(s) < 3 + m THEN short
         ELSE LET d == s[3 + m] IN
              IF Len(s) < 3 + m + d THEN short
              ELSE [err |-> "nil", ok |-> s[1] = 0,
                    message |-> SubSeq(s, 3, 2 + m),
                    rest |-> SubSeq(s, 4 + m + d, Len(s))]

\* quic.Stream.Write(buf): all of buf and no error, or an error after fewer
\* bytes (none, or only the first)
StreamWrite(buf) ==
    {[n |-> Len(buf), err |-> "nil"]}
    \cup {[n |-> k, err |-> "err"] : k \in 0 .. (IF Len(buf) < 2 THEN 0 ELSE 1)}

\* quic.Stream.Read(p) with len(p) = size on a stream whose remaining bytes are
\* s: EOF at the end, else between one and size bytes
StreamRead(s, size) ==
    IF Len(s) = 0 THEN {[n |-> 0, err |-> "EOF"]}
    ELSE {[n |-> k, err |-> "nil"] :
            k \in 1 .. (IF size < Len(s) THEN size ELSE Len(s))}

\* ---------------------------------------------------------------- serverConn
\* &serverConn{Stream: stream}, line 254
InitServerConn ==
    /\ sc_responseWritten = FALSE
    /\ sc_stream = <<>>
    /\ sc_log = <<>>

\* a call on the serverConn: what it was given, whether and what it handed to
\* Stream.Write, how many bytes the stream took, and what it returned
ServerCall(call, p, wrote, framed, buf, n, retN, retErr) ==
    [call |-> call, p |-> p, wrote |-> wrote, framed |-> framed, buf |-> buf,
     n |-> n, retN |-> retN, retErr |-> retErr]

responseWrittenKept == sc_responseWritten

\* lines 288, 298 and 311: c.responseWritten = true
responseWrittenSet == TRUE

\* serverConn.HandshakeFailure, lines 284-292
serverConn_HandshakeFailure(message, padding) ==
    /\ Len(sc_log) < MaxConnCalls
    /\ IF sc_responseWritten
       THEN /\ sc_log' = Append(sc_log, ServerCall("HandshakeFailure", message,
                                   FALSE, FALSE, <<>>, 0, 0, "ErrClosed"))
            /\ UNCHANGED <<sc_responseWritten, sc_stream>>
       ELSE LET buffer == WriteTCPResponse(FALSE, message, <<>>, padding) IN
            \E w \in StreamWrite(buffer) :
              /\ sc_responseWritten' = responseWrittenSet
              /\ sc_stream' = sc_stream \o SubSeq(buffer, 1, w.n)
              /\ sc_log' = Append(sc_log, ServerCall("HandshakeFailure", message,
                                     TRUE, TRUE, buffer, w.n, 0, w.err))
    /\ UNCHANGED <<clientVars, serverVars, clientConnVars>>

\* serverConn.HandshakeSuccess, lines 294-302
serverConn_HandshakeSuccess(padding) ==
    /\ Len(sc_log) < MaxConnCalls
    /\ IF sc_responseWritten
       THEN /\ sc_log' = Append(sc_log, ServerCall("HandshakeSuccess", <<>>,
                                   FALSE, FALSE, <<>>, 0, 0, "nil"))
            /\ UNCHANGED <<sc_responseWritten, sc_stream>>
       ELSE LET buffer == WriteTCPResponse(TRUE, <<>>, <<>>, padding) IN
            \E w \in StreamWrite(buffer) :
              /\ sc_responseWritten' = responseWrittenSet
              /\ sc_stream' = sc_stream \o SubSeq(buffer, 1, w.n)
              /\ sc_log' = Append(sc_log, ServerCall("HandshakeSuccess", <<>>,
                                     TRUE, TRUE, buffer, w.n, 0, w.err))
    /\ UNCHANGED <<clientVars, serverVars, clientConnVars>>

\* serverConn.Write, lines 309-322
serverConn_Write(p, padding) ==
    /\ Len(sc_log) < MaxConnCalls
    /\ IF ~sc_responseWritten
       THEN LET buffer == WriteTCPResponse(TRUE, <<>>, p, padding) IN
            \E w \in StreamWrite(buffer) :
              /\ sc_responseWritten' = responseWrittenSet
              /\ sc_stream' = sc_stream \o SubSeq(buffer, 1, w.n)
              /\ sc_log' = Append(sc_log, ServerCall("Write", p, TRUE, TRUE, buffer, w.n,
                                     IF w.err # "nil" THEN 0 ELSE Len(p), w.err))
       ELSE \E w \in StreamWrite(p) :
              /\ sc_responseWritten' = sc_responseWritten
              /\ sc_stream' = sc_stream \o SubSeq(p, 1, w.n)
              /\ sc_log' = Append(sc_log, ServerCall("Write", p, TRUE, FALSE, p, w.n,
                                     w.n, w.err))
    /\ UNCHANGED <<clientVars, serverVars, clientConnVars>>

\* ---------------------------------------------------------------- clientConn
\* what the peer sends on the stream before it closes it: a success response
\* with payload, one whose payload reads like a response, an error response, an
\* error response with more bytes after it, and responses cut short
InboundStreams ==
    {WriteTCPResponse(TRUE, <<>>, <<5, 6>>, padding) : padding \in Paddings}
    \cup {WriteTCPResponse(FALSE, <<7>>, <<>>, padding) : padding \in Paddings}
    \cup {WriteTCPResponse(TRUE, <<>>, <<>>, <<>>),
          WriteTCPResponse(TRUE, <<>>, WriteTCPResponse(FALSE, <<7>>, <<>>, <<>>), <<>>),
          WriteTCPResponse(FALSE, <<7>>, <<>>, <<>>)
              \o WriteTCPResponse(TRUE, <<>>, <<5>>, <<>>),
          <<>>, <<0>>, <<1, 1>>}

\* &clientConn{Stream: stream, destination: destination}, lines 189-192, on a
\* stream whose peer sends one of the streams of I
InitClientConn(I) ==
    /\ cc_requestWritten = FALSE
    /\ cc_responseRead = FALSE
    /\ cc_stream = <<>>
    /\ cc_inbound \in I
    /\ cc_log = <<>>

\* a call on the clientConn: for Write as for the serverConn; for Read the
\* buffer size, the stream before the call, whether a response was parsed, the
\* bytes delivered, and whether later Reads pass through
ClientCall(call, p, framed, buf, n, size, before, parsed, data, passThrough, retN, retErr, message) ==
    [call |-> call, p |-> p, framed |-> framed, buf |-> buf, n |-> n,
     size |-> size, before |-> before, parsed |-> parsed, data |-> data,
     passThrough |-> passThrough, retN |-> retN, retErr |-> retErr,
     message |-> message]

requestWrittenNever(err) == cc_requestWritten

\* clientConn.Write, lines 297-300: requestWritten after the frame's write
requestWrittenAfter(err) == IF err # "nil" THEN cc_requestWritten ELSE TRUE

\* clientConn.Write, lines 292-305
clientConn_Write(p, padding) ==
    /\ Len(cc_log) < MaxConnCalls
    /\ IF ~cc_requestWritten
       THEN LET buffer == WriteTCPRequest(Destination, p, padding) IN
            \E w \in StreamWrite(buffer) :
              /\ cc_requestWritten' = requestWrittenAfter(w.err)
              /\ cc_stream' = cc_stream \o SubSeq(buffer, 1, w.n)
              /\ cc_log' = Append(cc_log,
                     ClientCall("Write", p, TRUE, buffer, w.n, 0, <<>>, FALSE, <<>>,
                                cc_responseRead,
                                IF w.err # "nil" THEN 0 ELSE Len(p), w.err, <<>>))
       ELSE \E w \in StreamWrite(p) :
              /\ cc_requestWritten' = cc_requestWritten
              /\ cc_stream' = cc_stream \o SubSeq(p, 1, w.n)
              /\ cc_log' = Append(cc_log,
                     ClientCall("Write", p, FALSE, p, w.n, 0, <<>>, FALSE, <<>>,
                                cc_responseRead, w.n, w.err, <<>>))
    /\ UNCHANGED <<cc_responseRead, cc_inbound>>
    /\ UNCHANGED <<clientVars, serverVars, serverConnVars>>

responseReadKept == cc_responseRead

\* clientConn.Read, line 287: c.responseRead = true
responseReadSet == TRUE

\* clientConn.Read, lines 274-290, with len(p) = size
clientConn_Read(size) ==
    /\ Len(cc_log) < MaxConnCalls
    /\ IF cc_responseRead
       THEN \E r \in StreamRead(cc_inbound, size) :
              /\ cc_inbound' = SubSeq(cc_inbound, r.n + 1, Len(cc_inbound))
              /\ cc_responseRead' = cc_responseRead
              /\ cc_log' = Append(cc_log,
                     ClientCall("Read", <<>>, FALSE, <<>>, 0, size, cc_inbound, FALSE,
                                SubSeq(cc_inbound, 1, r.n), TRUE, r.n, r.err, <<>>))
       ELSE LET response == ReadTCPResponse(cc_inbound) IN
            IF response.err # "nil"
            THEN /\ cc_inbound' = response.rest
                 /\ cc_responseRead' = cc_responseRead
                 /\ cc_log' = Append(cc_log,
                        ClientCall("Read", <<>>, FALSE, <<>>, 0, size, cc_inbound, TRUE,
                                   <<>>, FALSE, 0, response.err, <<>>))
            ELSE IF ~response.ok
            THEN /\ cc_inbound' = response.rest
                 /\ cc_responseRead' = cc_responseRead
                 /\ cc_log' = Append(cc_log,
                        ClientCall("Read", <<>>, FALSE, <<>>, 0, size, cc_inbound, TRUE,
                                   <<>>, FALSE, 0, "RemoteError", response.message))
            ELSE \E r \in StreamRead(response.rest, size) :
                   /\ cc_inbound' = SubSeq(response.rest, r.n + 1, Len(response.rest))
                   /\ cc_responseRead' = responseReadSet
                   /\ cc_log' = Append(cc_log,
                          ClientCall("Read", <<>>, FALSE, <<>>, 0, size, cc_inbound, TRUE,
                                     SubSeq(response.rest, 1, r.n), responseReadSet, r.n,
                                     r.err,
                                     <<>>))
    /\ UNCHANGED <<cc_requestWritten, cc_stream>>
    /\ UNCHANGED <<clientVars, serverVars, serverConnVars>>


\* ------------------------------------------------------- specifications
\* the options of a Client that no call is made on
IdleClientOptions == CHOOSE options \in ClientOptions : ~options.UDPDisabled

\* one Client used by the goroutines of Callers
Init ==
    /\ InitClient(ClientOptions, AuthResponses)
    /\ InitService({CHOOSE o \in ServiceOptions : TRUE})
    /\ InitServerConn
    /\ InitClientConn({<<>>})

Next ==
    \/ \E t \in Callers : DialConn(t)
    \/ \E t \in Callers : ListenPacket(t)
    \/ \E t \in Callers : offer(t)
    \/ \E t \in Callers : offer_Locked(t)
    \/ \E t \in Callers : offerNew(t)
    \/ \E t \in Callers : DialConn_OpenStream(t)
    \/ \E t \in Callers : ListenPacket_Check(t)
    \/ \E t \in Callers : ListenPacket_Lock(t)
    \/ \E t \in Callers : ListenPacket_Put(t)
    \/ \E h \in 1 .. Len(handles) : udpPacketConn_Close(h)
    \/ \E i \in 1 .. Len(conns) : ListenPacketCloseCycles(i)
    \/ \E t \in Callers : Client_CloseWithError(t)
    \/ \E i \in 1 .. Len(conns) : QuicContextDone(i)

Spec == Init /\ [][Next]_vars

\* one serverSession: its ServeHTTP goroutines, its streams, and UpdateUsers
InitServer ==
    /\ InitClient({IdleClientOptions}, {CHOOSE r \in AuthResponses : TRUE})
    /\ InitService(ServiceOptions)
    /\ InitServerConn
    /\ InitClientConn({<<>>})

NextServer ==
    \/ \E l \in UserLists : UpdateUsers(l[1], l[2])
    \/ \E h \in Handlers, r \in Requests : ServeHTTP(h, r)
    \/ \E h \in Handlers : ServeHTTP_Lookup(h)
    \/ \E h \in Handlers : ServeHTTP_SetUser(h)
    \/ \E h \in Handlers : ServeHTTP_SetAuthenticated(h)
    \/ \E h \in Handlers : ServeHTTP_SetCongestionControl(h)
    \/ \E h \in Handlers : ServeHTTP_Respond(h)
    \/ ContextCancel
    \/ Propagator_ContextDone
    \/ Propagator_ConnDone
    \/ handleConnection_Return
    \/ \E frameType \in {FrameTypeTCPRequest, OtherFrameType}, err \in {"nil", "err"} :
         handleStream0(frameType, err)
    \/ handleStream

SpecServer == InitServer /\ [][NextServer]_vars

\* one serverConn, its calls made in caller order
InitServerConnSpec ==
    /\ InitClient({IdleClientOptions}, {CHOOSE r \in AuthResponses : TRUE})
    /\ InitService({CHOOSE o \in ServiceOptions : TRUE})
    /\ InitServerConn
    /\ InitClientConn({<<>>})

NextServerConn ==
    \/ \E message \in Messages, padding \in Paddings :
         serverConn_HandshakeFailure(message, padding)
    \/ \E padding \in Paddings : serverConn_HandshakeSuccess(padding)
    \/ \E p \in Payloads, padding \in Paddings : serverConn_Write(p, padding)

SpecServerConn == InitServerConnSpec /\ [][NextServerConn]_vars

\* one clientConn, its calls made in caller order
InitClientConnSpec ==
    /\ InitClient({IdleClientOptions}, {CHOOSE r \in AuthResponses : TRUE})
    /\ InitService({CHOOSE o \in ServiceOptions : TRUE})
    /\ InitServerConn
    /\ InitClientConn(InboundStreams)

NextClientConn ==
    \/ \E p \in Payloads, padding \in Paddings : clientConn_Write(p, padding)
    \/ \E size \in {1, 2} : clientConn_Read(size)

SpecClientConn == InitClientConnSpec /\ [][NextClientConn]_vars

\* one Client whose calls are made by one goroutine, with every combination of
\* its sendBPS and the AuthResponse's rx (zero, below, equal, above) and rx_auto
OfferOptions ==
    [UDPDisabled : BOOLEAN, SendBPS : {0, 30, 40, 60}, ReceiveBPS : {50},
     Password : {"p"}]
OfferResponses == [UDPEnabled : BOOLEAN, Rx : {0, 30, 40, 50}, RxAuto : BOOLEAN]

InitOffer ==
    /\ InitClient(OfferOptions, OfferResponses)
    /\ InitService({CHOOSE o \in ServiceOptions : TRUE})
    /\ InitServerConn
    /\ InitClientConn({<<>>})

NextOffer ==
    \/ \E t \in {1} : DialConn(t)
    \/ \E t \in {1} : offer(t)
    \/ \E t \in {1} : offer_Locked(t)
    \/ \E t \in {1} : offerNew(t)
    \/ \E t \in {1} : DialConn_OpenStream(t)
    \/ \E t \in {1} : Client_CloseWithError(t)
    \/ \E i \in 1 .. Len(conns) : QuicContextDone(i)

SpecOffer == InitOffer /\ [][NextOffer]_vars

\* one serverSession and its auth POSTs, with every combination of the
\* service's sendBPS and the request's rx (zero, below, equal, above) and of
\* ignoreClientBandwidth
AuthOptions ==
    [sendBPS : {0, 20, 40}, receiveBPS : {50}, ignoreClientBandwidth : BOOLEAN,
     udpDisabled : {FALSE}, ctxDone : {FALSE}]
AuthRequests ==
    [method : {MethodPost}, host : {URLHost}, path : {URLPath},
     auth : {"p"}, rx : {0, 10, 20, 30}]

InitAuth ==
    /\ InitClient({IdleClientOptions}, {CHOOSE r \in AuthResponses : TRUE})
    /\ InitService(AuthOptions)
    /\ InitServerConn
    /\ InitClientConn({<<>>})

NextAuth ==
    \/ \E l \in UserLists : UpdateUsers(l[1], l[2])
    \/ \E h \in Handlers, r \in AuthRequests : ServeHTTP(h, r)
    \/ \E h \in Handlers : ServeHTTP_Lookup(h)
    \/ \E h \in Handlers : ServeHTTP_SetUser(h)
    \/ \E h \in Handlers : ServeHTTP_SetAuthenticated(h)
    \/ \E h \in Handlers : ServeHTTP_SetCongestionControl(h)
    \/ \E h \in Handlers : ServeHTTP_Respond(h)

SpecAuth == InitAuth /\ [][NextAuth]_vars

\* one serverSession, its auth POSTs and the cancellation of the service
\* context, the goroutines scheduled fairly: a ServeHTTP goroutine that has
\* set authenticated goes on to start the watcher of lines 212-218, and a
\* watcher whose context is done runs its case
CancelOptions ==
    [sendBPS : {20}, receiveBPS : {50}, ignoreClientBandwidth : {FALSE},
     udpDisabled : {FALSE}, ctxDone : BOOLEAN]
CancelRequests ==
    [method : {MethodPost}, host : {URLHost}, path : {URLPath},
     auth : {"p", "q"}, rx : {30}]

InitCancel ==
    /\ InitClient({IdleClientOptions}, {CHOOSE r \in AuthResponses : TRUE})
    /\ InitService(CancelOptions)
    /\ InitServerConn
    /\ InitClientConn({<<>>})

NextCancel ==
    \/ \E l \in UserLists : UpdateUsers(l[1], l[2])
    \/ \E h \in Handlers, r \in CancelRequests : ServeHTTP(h, r)
    \/ \E h \in Handlers : ServeHTTP_Lookup(h)
    \/ \E h \in Handlers : ServeHTTP_SetUser(h)
    \/ \E h \in Handlers : ServeHTTP_SetAuthenticated(h)
    \/ \E h \in Handlers : ServeHTTP_SetCongestionControl(h)
    \/ \E h \in Handlers : ServeHTTP_Respond(h)
    \/ ContextCancel
    \/ Propagator_ContextDone
    \/ Propagator_ConnDone
    \/ handleConnection_Return

\* the Go scheduler runs every runnable goroutine
FairCancel ==
    /\ \A h \in Handlers : WF_vars(ServeHTTP_SetCongestionControl(h))
    /\ \A h \in Handlers : WF_vars(ServeHTTP_Respond(h))
    /\ WF_vars(Propagator_ContextDone)

SpecCancel == InitCancel /\ [][NextCancel]_vars /\ FairCancel

\* end to end: one Client, its calls made by one goroutine, dialing a Service;
\* the serverSession is the one of the Client's first connection
ScenarioClient ==
    [UDPDisabled |-> FALSE, SendBPS |-> 100000000, ReceiveBPS |-> 50000000,
     Password |-> "p"]
\* the Service's options: receive_bps is not configured (0), or is below or
\* above the Client's send_bps
ScenarioServices ==
    [sendBPS : {80000000}, receiveBPS : {0, 50000000, 120000000},
     ignoreClientBandwidth : {FALSE}, udpDisabled : {FALSE}, ctxDone : {FALSE}]
ScenarioUsers == <<<<"U">>, <<"p">>>>

ClientAuthRequestNoRx ==
    [method |-> MethodPost, host |-> URLHost, path |-> URLPath,
     auth |-> c_password, rx |-> 0]

\* offerNew, lines 130-139: the auth POST the Client sends
ClientAuthRequest ==
    [method |-> MethodPost, host |-> URLHost, path |-> URLPath,
     auth |-> c_password, rx |-> c_receiveBPS]

InitScenario ==
    /\ InitClient({ScenarioClient}, {CHOOSE r \in AuthResponses : TRUE})
    /\ InitService(ScenarioServices)
    /\ InitServerConn
    /\ InitClientConn({<<>>})

\* the Client's auth POST reaches the session (line 140, then line 175): the
\* users are set, a caller is inside offerNew, and it is the connection's
\* first request
Scenario_ServeHTTP(h) ==
    /\ DOMAIN userMap # {}
    /\ requests = 0
    /\ \E t \in Callers : pc[t] = "offerNew"
    /\ ServeHTTP(h, ClientAuthRequest)

\* the round trip of line 140 returns what the session answered
Scenario_offerNew(t) ==
    /\ lastResp.via # "none"
    /\ offerNewRoundTrip(t, {lastResp.status}, lastResp.header)

NextScenario ==
    \/ UpdateUsers(ScenarioUsers[1], ScenarioUsers[2])
    \/ \E h \in Handlers : Scenario_ServeHTTP(h)
    \/ \E h \in Handlers : ServeHTTP_Lookup(h)
    \/ \E h \in Handlers : ServeHTTP_SetUser(h)
    \/ \E h \in Handlers : ServeHTTP_SetAuthenticated(h)
    \/ \E h \in Handlers : ServeHTTP_SetCongestionControl(h)
    \/ \E h \in Handlers : ServeHTTP_Respond(h)
    \/ \E t \in {1} : DialConn(t)
    \/ \E t \in {1} : ListenPacket(t)
    \/ \E t \in {1} : offer(t)
    \/ \E t \in {1} : offer_Locked(t)
    \/ \E t \in {1} : Scenario_offerNew(t)
    \/ \E t \in {1} : DialConn_OpenStream(t)
    \/ \E t \in {1} : ListenPacket_Check(t)
    \/ \E t \in {1} : ListenPacket_Lock(t)
    \/ \E t \in {1} : ListenPacket_Put(t)
    \/ \E t \in {1} : Client_CloseWithError(t)
    \/ \E i \in 1 .. Len(conns) : QuicContextDone(i)

SpecScenario == InitScenario /\ [][NextScenario]_vars


\* ======================================================== claims, Client
Stored == 1 .. Len(conns)
Returned == 1 .. Len(handles)

\* at most one caller is inside offerNew
OfferNewExclusive == Cardinality({t \in Callers : pc[t] = "offerNew"}) <= 1

\* while a caller is inside offerNew the stored connection is nil or inactive
NoOfferNewWhileActive ==
    \A t \in Callers : pc[t] = "offerNew" => ~nonNilActive(c_conn)

\* offer returning without offerNew returns the stored connection, which is
\* active, and dials nothing; and a caller that holds the lock and finds the
\* stored connection active returns it
OfferHitStep ==
    \A t \in Callers :
      /\ (pc[t] \in {"offer", "lock"} /\ pc'[t] = "offered")
            => /\ nonNilActive(c_conn)
               /\ cv'[t] = c_conn
               /\ c_conn' = c_conn
               /\ conns' = conns
      /\ (pc[t] = "lock" /\ pc'[t] # "lock" /\ nonNilActive(c_conn))
            => pc'[t] = "offered"

\* C1: single flight. Over every interleaving of offer calls, no offerNew runs
\* while the stored connection is non-nil and active, two offerNew executions
\* never overlap, and a caller that finds the stored connection active gets that
\* connection without dialing.
C1_SingleFlight ==
    [](OfferNewExclusive /\ NoOfferNewWhileActive) /\ [][OfferHitStep]_vars

\* two callers raced through offer: one dialed, the other took the lock after it
\* and got the same connection from the re-check
C1_Witness ==
    \E t, u \in Callers :
      /\ pc[t] = "offered" /\ how[t] = "dialed"
      /\ pc[u] = "offered" /\ how[u] = "recheck"
      /\ cv[t] = cv[u]

\* at most one of the stored connections is active
AtMostOneActive == Cardinality({i \in Stored : active(i)}) <= 1

\* Client.conn changes only to a newly built connection whose auth round trip
\* ended with StatusAuthOK, and only when the old one is nil or inactive
ReplaceStep ==
    c_conn' # c_conn
      => /\ ~nonNilActive(c_conn)
         /\ c_conn' = Len(conns) + 1
         /\ Len(conns') = Len(conns) + 1
         /\ conns'[c_conn'].authStatus = StatusAuthOK
         /\ conns'[c_conn'].quic = "open"
         /\ ~conns'[c_conn'].ctxDone /\ ~conns'[c_conn'].connDone

\* C2: in every reachable state at most one stored connection is active, and
\* Client.conn is replaced in one step, by a connection authenticated with
\* StatusAuthOK, only when the previous one is nil or inactive.
C2_OneActiveConnection ==
    /\ [](AtMostOneActive /\ \A i \in Stored : conns[i].authStatus = StatusAuthOK)
    /\ [][ReplaceStep]_vars

\* a second connection has replaced a first one that went inactive
C2_Witness ==
    /\ Len(conns) = 2
    /\ c_conn = 2
    /\ ~active(1)
    /\ active(2)

SameConn(h1, h2) == handles[h1].conn = handles[h2].conn

\* C9 as stated: any two handles returned on one connection have distinct ids
C9_Original ==
    \A h1, h2 \in Returned :
      (h1 # h2 /\ SameConn(h1, h2)) => handles[h1].id # handles[h2].id

\* C9 (amended): within one client connection, under every interleaving of
\* ListenPacket calls, any two handles returned have distinct session ids as long
\* as the uint32 udpSessionID has not wrapped (fewer than 2^32 ids allocated on
\* the connection).
C9_UniqueUntilWrap ==
    \A h1, h2 \in Returned :
      (h1 # h2 /\ SameConn(h1, h2) /\ ~conns[handles[h1].conn].wrapped)
         => handles[h1].id # handles[h2].id

\* two handles were returned on one connection whose counter has not wrapped
C9_Witness ==
    \E h1, h2 \in Returned :
      /\ h1 # h2
      /\ SameConn(h1, h2)
      /\ ~conns[handles[h1].conn].wrapped
      /\ handles[h1].id # handles[h2].id

\* C10: ListenPacket fails with Invalid exactly when UDP is locally disabled, and
\* then never enters offer; it fails with "UDP disabled by server" exactly when
\* offer returned a connection whose auth response had UDP disabled; on a
\* connection with UDP disabled on either side the session counter stays 0, the
\* session table stays empty and no handle is ever returned.
C10_ListenPacketErrors ==
    /\ ret.op = "ListenPacket" => (ret.err = "Invalid" <=> c_udpDisabled)
    /\ c_udpDisabled => \A t \in Callers : op[t] # "ListenPacket"
    /\ (ret.op = "ListenPacket" /\ ret.conn # 0)
          => /\ conns[ret.conn].authStatus = StatusAuthOK
             /\ ret.err = "UDPDisabledByServer" <=> ~conns[ret.conn].authUDP
             /\ ret.handle # 0 <=> conns[ret.conn].authUDP
    /\ \A i \in Stored :
         (c_udpDisabled \/ ~conns[i].authUDP)
            => /\ conns[i].udpSessionID = Zero32
               /\ conns[i].udpConnMap = {}
               /\ \A h \in Returned : handles[h].conn # i
               /\ \A t \in Callers : pc[t] \in {"lp_lock", "lp_put"} => cv[t] # i

\* ListenPacket returned "UDP disabled by server" on an authenticated connection
C10_Witness ==
    /\ ret.op = "ListenPacket"
    /\ ret.err = "UDPDisabledByServer"
    /\ conns[ret.conn].authStatus = StatusAuthOK
    /\ ~c_udpDisabled

\* ================================================ claims, serverSession
\* how often line 193 (s.authenticated = true) has run: once for each ServeHTTP
\* goroutine that is at, or has passed, the congestion-control selection
AuthPosts == Len(ccInstalls) + Cardinality({h \in Handlers : hpc[h] \in {"setCC"}})

\* a step that completes a response through the masquerade handler
MasqueradeStep ==
    \/ requests' = requests + 1 /\ hpc' = hpc /\ lastResp'.via = "masquerade"
    \/ \E h \in Handlers : hpc[h] = "lookup" /\ hpc'[h] = "idle"

\* a ServeHTTP call that begins, for a request on the auth URL
AuthRequestStep ==
    requests' = requests + 1 /\ (hpc' # hpc \/ lastResp'.matches)

\* C3 as stated, its first part: every request that is off the auth URL, and
\* every auth request whose Hysteria-Auth value is not a key of the user map, is
\* answered by the masquerade handler.
C3_Original ==
    (lastResp.via # "none" /\ (~lastResp.matches \/ ~lastResp.known))
        => lastResp.via = "masquerade"

\* what C3 says of the requests it covers once the session is left out that
\* is already authenticated
C3_HandedToMasquerade ==
    (lastResp.via # "none"
        /\ (~lastResp.matches \/ (~lastResp.known /\ ~lastResp.authSeen)))
        => lastResp.via = "masquerade"

\* C3, amended: every request whose (method, host, path) differs from the auth
\* URL, and every auth request whose Hysteria-Auth value is not a key of the
\* user map and which finds the session not authenticated, is handed to the
\* masquerade handler; handling it does not close the QUIC connection or the
\* session and does not change the authenticated flag.
C3_Masquerade ==
    /\ []C3_HandedToMasquerade
    /\ [][MasqueradeStep =>
            /\ lastResp'.via = "masquerade"
            /\ authenticated' = authenticated
            /\ s_quicConn' = s_quicConn
            /\ s_connDone' = s_connDone]_vars

\* an auth request with a password that is no key of a non-empty user map was
\* answered by the masquerade handler, the connection open and unauthenticated
C3_Witness ==
    /\ lastResp.via = "masquerade"
    /\ lastResp.matches
    /\ ~lastResp.known
    /\ DOMAIN userMap # {}
    /\ ~authenticated
    /\ s_quicConn = "open"

\* C4: while authenticated is false handleStream0 takes no stream and
\* handler.NewConnection is not called; handleStream0 takes a stream if and only
\* if the session is authenticated, it was given no error, and the frame type is
\* FrameTypeTCPRequest; and NewConnection is called only after an auth POST has
\* passed the password lookup and set authenticated.
C4_Ordering ==
    /\ ~authenticated
          => ~stream0.hijacked /\ pending = 0 /\ newConnection.calls = 0
    /\ streams > 0
          => (stream0.hijacked <=> /\ stream0.authenticated
                                   /\ stream0.err = "nil"
                                   /\ stream0.frameType = FrameTypeTCPRequest)
    /\ (pending > 0 \/ newConnection.calls > 0)
          => authenticated /\ AuthPosts >= 1

\* a stream was taken and NewConnection was called
C4_Witness ==
    /\ stream0.hijacked
    /\ newConnection.calls > 0

\* C5: an auth POST that arrives when authenticated is set is answered with
\* StatusAuthOK and the AuthResponse headers of the first success, and leaves
\* the congestion controller, the authenticated flag and the user as they are;
\* no goroutine that found the flag set goes on to the lookup.
C5_AuthIdempotence ==
    /\ [](/\ lastResp.status = StatusAuthOK => lastResp.header = AuthResponseToHeader
          /\ \A h \in Handlers : hpc[h] # "idle" => ~hloc[h].authSeen)
    /\ [][(AuthRequestStep /\ authenticated) =>
            /\ hpc' = hpc
            /\ lastResp'.via = "replay"
            /\ lastResp'.status = StatusAuthOK
            /\ lastResp'.header = AuthResponseToHeader
            /\ ccInstalls' = ccInstalls
            /\ authenticated' = authenticated
            /\ authUser' = authUser]_vars

\* an auth POST was answered again, after exactly one controller was installed
C5_Witness ==
    /\ lastResp.via = "replay"
    /\ Len(ccInstalls) = 1
    /\ authenticated

\* C15 as stated: whenever handler.NewConnection is called, the user in ctx is
\* the user-map entry of the password presented in the auth POST that
\* authenticated the session, and it is the same for every NewConnection call
\* on the session, under any interleaving of auth requests and stream hijacks.
C15_Original ==
    newConnection.calls > 0 => newConnection.users = {authPost.user}

\* C16 as stated: for every interleaving of auth POST handlers on one session
\* the session becomes authenticated once and the server installs its
\* congestion controller exactly once: never a second time, and once by the
\* time the auth response is written.
C16_Original ==
    /\ Len(ccInstalls) <= 1
    /\ lastResp.via = "auth" => Len(ccInstalls) = 1

\* ====================================================== claims, serverConn
\* the entry's buffer is the response frame its call has to send
IsResponseFrame(e) ==
    \E padding \in Paddings :
        e.buf = WriteTCPResponse(e.call # "HandshakeFailure",
                                 IF e.call = "HandshakeFailure" THEN e.p ELSE <<>>,
                                 IF e.call = "Write" THEN e.p ELSE <<>>,
                                 padding)

\* the stream took all of the entry's buffer
AcceptedWhole(e) == e.n = Len(e.buf)

\* every call after the first: a Write passes p through unframed, a
\* HandshakeSuccess or HandshakeFailure writes nothing
LaterCallsUnframed ==
    \A i \in 2 .. Len(sc_log) :
        /\ ~sc_log[i].framed
        /\ IF sc_log[i].call = "Write"
           THEN sc_log[i].wrote /\ sc_log[i].buf = sc_log[i].p
                /\ sc_log[i].retN = sc_log[i].n
           ELSE ~sc_log[i].wrote

\* C6 as stated: exactly one TCP-response frame is written to the stream, by
\* the first call; a first Write(p) emits the success frame with p and reports
\* len(p); later calls write no frame.
C6_Original ==
    Len(sc_log) >= 1 =>
        /\ sc_log[1].framed
        /\ IsResponseFrame(sc_log[1])
        /\ AcceptedWhole(sc_log[1])
        /\ sc_log[1].call = "Write" => sc_log[1].retN = Len(sc_log[1].p)
        /\ LaterCallsUnframed

\* C6, amended: exactly one TCP-response frame is handed to the stream, by the
\* first call, and the stream holds it whole exactly when that stream write
\* succeeds; a first Write(p) hands over the success frame with p and reports
\* len(p) when the stream write succeeds, 0 and the error when it fails; every
\* later Write passes p through unframed, every later HandshakeSuccess or
\* HandshakeFailure writes nothing.
C6_OneResponseFrame ==
    Len(sc_log) >= 1 =>
        /\ sc_log[1].framed
        /\ IsResponseFrame(sc_log[1])
        /\ AcceptedWhole(sc_log[1]) <=> sc_log[1].retErr = "nil"
        /\ SubSeq(sc_stream, 1, sc_log[1].n) = SubSeq(sc_log[1].buf, 1, sc_log[1].n)
        /\ sc_log[1].call = "Write"
              => sc_log[1].retN = IF sc_log[1].retErr = "nil"
                                  THEN Len(sc_log[1].p) ELSE 0
        /\ LaterCallsUnframed

\* a first Write whose frame the stream took, a Write after it, and a
\* HandshakeFailure after that
C6_Witness ==
    /\ Len(sc_log) = 3
    /\ sc_log[1].call = "Write" /\ sc_log[1].retErr = "nil" /\ sc_log[1].p # <<>>
    /\ sc_log[2].call = "Write" /\ sc_log[2].p # <<>>
    /\ sc_log[3].call = "HandshakeFailure"

\* ====================================================== claims, clientConn
IsWrite(e) == e.call = "Write"
IsRead(e) == e.call = "Read"
Writes == SelectSeq(cc_log, IsWrite)
Reads == SelectSeq(cc_log, IsRead)

\* the entry's buffer is the request frame for the destination and p
IsRequestFrame(e) ==
    \E padding \in Paddings : e.buf = WriteTCPRequest(Destination, e.p, padding)

\* C7 as stated: the first Write(p) sends one TCP-request frame with p and
\* returns len(p), every subsequent Write passes its bytes through unframed, so
\* the frame is on the stream exactly once.
C7_Original ==
    Len(Writes) >= 1 =>
        /\ Writes[1].framed /\ IsRequestFrame(Writes[1])
        /\ AcceptedWhole(Writes[1])
        /\ Writes[1].retN = Len(Writes[1].p)
        /\ \A i \in 2 .. Len(Writes) :
              ~Writes[i].framed /\ Writes[i].buf = Writes[i].p

\* C7, amended: a Write(p) sends the TCP-request frame with the destination and
\* p exactly when no earlier Write's frame was accepted by the stream; it
\* returns len(p) when the stream accepts the frame, and 0 with the error when
\* the stream write fails (the next Write then sends the frame again); every
\* Write after the accepted frame passes its bytes through unframed. So a frame
\* is accepted whole at most once, and before any pass-through payload.
C7_WritePath ==
    \A i \in 1 .. Len(Writes) :
        /\ Writes[i].framed
              <=> ~\E j \in 1 .. i - 1 : Writes[j].framed /\ AcceptedWhole(Writes[j])
        /\ Writes[i].framed
              => /\ IsRequestFrame(Writes[i])
                 /\ AcceptedWhole(Writes[i]) <=> Writes[i].retErr = "nil"
                 /\ Writes[i].retN = IF Writes[i].retErr = "nil"
                                     THEN Len(Writes[i].p) ELSE 0
        /\ ~Writes[i].framed
              => /\ Writes[i].buf = Writes[i].p
                 /\ Writes[i].retN = Writes[i].n

\* a Write whose frame the stream refused, the Write that sent it again, and a
\* Write that passed through
C7_Witness ==
    /\ Len(Writes) = 3
    /\ Writes[1].retErr = "err"
    /\ Writes[2].framed /\ Writes[2].retErr = "nil"
    /\ ~Writes[3].framed /\ Writes[3].p # <<>>

\* s without its first k elements
Drop(s, k) == SubSeq(s, k + 1, Len(s))

\* s begins with t
StartsWith(s, t) == Len(t) <= Len(s) /\ SubSeq(s, 1, Len(t)) = t

\* a pass-through read: what was delivered is what the stream held next
DeliveredFrom(e, bytes) ==
    /\ StartsWith(bytes, e.data)
    /\ e.retN = Len(e.data)
    /\ Len(e.data) <= e.size
    /\ IF bytes = <<>> THEN e.retErr = "EOF" ELSE e.retN >= 1 /\ e.retErr = "nil"

\* C8: a Read parses a TCP-response frame exactly while no response with status
\* OK has been read, so the first Read does, and it consumes that one frame: on
\* status OK that Read and all later Reads pass the bytes after the frame
\* through and no further frame is parsed; on status error the Read returns the
\* remote error with the server's message and delivers no payload bytes.
C8_ReadPath ==
    \A i \in 1 .. Len(Reads) :
        /\ Reads[i].parsed <=> ~\E j \in 1 .. i - 1 : Reads[j].passThrough
        /\ \A message \in {<<>>} \cup Messages, padding \in Paddings :
              /\ (Reads[i].parsed
                    /\ StartsWith(Reads[i].before,
                                  WriteTCPResponse(TRUE, message, <<>>, padding)))
                 => LET frame == WriteTCPResponse(TRUE, message, <<>>, padding) IN
                    /\ Reads[i].passThrough
                    /\ DeliveredFrom(Reads[i], Drop(Reads[i].before, Len(frame)))
                    /\ i < Len(Reads)
                          => Reads[i + 1].before
                               = Drop(Reads[i].before, Len(frame) + Reads[i].retN)
              /\ (Reads[i].parsed
                    /\ StartsWith(Reads[i].before,
                                  WriteTCPResponse(FALSE, message, <<>>, padding)))
                 => LET frame == WriteTCPResponse(FALSE, message, <<>>, padding) IN
                    /\ Reads[i].retErr = "RemoteError"
                    /\ Reads[i].message = message
                    /\ Reads[i].retN = 0 /\ Reads[i].data = <<>>
                    /\ ~Reads[i].passThrough
                    /\ i < Len(Reads)
                          => Reads[i + 1].before = Drop(Reads[i].before, Len(frame))
        /\ ~Reads[i].parsed
              => Reads[i].passThrough /\ DeliveredFrom(Reads[i], Reads[i].before)

\* a first Read that got the remote error, a Read that read an OK response and
\* its payload, and a Read after it that parsed nothing
C8_Witness ==
    /\ Len(Reads) = 3
    /\ Reads[1].retErr = "RemoteError" /\ Reads[1].message = <<7>>
    /\ Reads[2].parsed /\ Reads[2].passThrough /\ Reads[2].data = <<5>>
    /\ ~Reads[3].parsed /\ Reads[3].retErr = "EOF"


\* ================================================= claims, Client closing
\* the close state of a stored connection: what closeWithError's body writes
CloseState(c) == <<c.connErr, c.connDone, c.doneCloses, c.quic, c.quicCloses>>

\* a connection closeWithError has been called on holds the first call's
\* error, its done channel was closed once, and its QUIC connection was closed
\* by one CloseWithError(0, ""); it is not active. One that closeWithError has
\* not been called on has none of these.
ClosedOnce ==
    \A i \in Stored :
      IF conns[i].closeCalls > 0
      THEN /\ conns[i].connErr = conns[i].firstErr
           /\ conns[i].connDone /\ conns[i].doneCloses = 1
           /\ conns[i].quic = "closed" /\ conns[i].quicCloses = <<QuicCloseArgs>>
           /\ ~active(i)
      ELSE /\ conns[i].connErr = "nil"
           /\ ~conns[i].connDone /\ conns[i].doneCloses = 0
           /\ conns[i].quicCloses = <<>>

\* a closeWithError call after the first changes nothing of the close state,
\* and a connection that was closed never becomes active again
LaterCloseStep ==
    \A i \in Stored :
      conns[i].closeCalls > 0
        => /\ CloseState(conns'[i]) = CloseState(conns[i])
           /\ conns'[i].firstErr = conns[i].firstErr
           /\ conns'[i].ctxDone \/ conns'[i].connDone

\* C11: Client CloseWithError is idempotent. For every sequence or interleaving
\* of CloseWithError calls on one connection the latched error is the error of
\* the first call, connDone is closed exactly once and the QUIC connection is
\* closed exactly once, with code 0 and an empty reason; later calls change
\* nothing, and after the first call active() stays false.
C11_CloseIdempotent == []ClosedOnce /\ [][LaterCloseStep]_vars

\* CloseWithError was called twice on one connection
C11_Witness ==
    \E i \in Stored : conns[i].closeCalls >= 2 /\ conns[i].connErr = "e1"

\* C17 as stated: after closeWithError has run on a clientQUICConnection both
\* the QUIC connection and the raw UDP socket have been closed, each exactly
\* once, however many times CloseWithError is called.
C17_Original ==
    \A i \in Stored :
      conns[i].closeCalls > 0
        => /\ conns[i].quic = "closed" /\ Len(conns[i].quicCloses) = 1
           /\ conns[i].raw = "closed"

\* a caller's offerNew returns an error
OfferNewFails(t) == pc[t] = "offerNew" /\ pc'[t] = "idle"

\* a failed offerNew returns its error to the caller of offer, with the UDP
\* socket closed if it was dialed and the QUIC connection closed if it was
\* established; it stores nothing, starts no loop, releases connAccess and
\* leaves the caller idle
FailedOfferNewStep ==
    \A t \in Callers :
      OfferNewFails(t)
        => /\ ret'.caller = t /\ ret'.op = op[t]
           /\ ret'.err \in {"DialFailure", "RoundTripFailure", "AuthenticationFailed"}
           /\ ret'.conn = 0 /\ ret'.handle = 0
           /\ ret'.raw = IF ret'.err = "DialFailure" THEN "none" ELSE "closed"
           /\ ret'.quic \in {"none", "closed"}
           /\ ret'.err = "DialFailure" => ret'.quic = "none"
           /\ ret'.err = "AuthenticationFailed" => ret'.quic = "closed"
           /\ c_conn' = c_conn /\ connHist' = connHist /\ conns' = conns
           /\ connAccess' = 0
           /\ \A u \in Callers : pc'[u] # "offerNew"

\* C18: a failed offerNew (round-trip error, or a response status other than
\* StatusAuthOK; qtls.CreateTransport returns no error) closes the QUIC
\* connection if one was established and the UDP socket before it returns,
\* returns the error to the offer caller, leaves Client.conn as it was and
\* starts no message loop; nothing is retried until a later offer call. A
\* caller leaves offerNew only by such a failure or with a stored connection.
C18_FailedOfferNew ==
    /\ [][FailedOfferNewStep]_vars
    /\ [][\A t \in Callers :
            (pc[t] = "offerNew" /\ pc'[t] # "offerNew" /\ ~OfferNewFails(t))
               => pc'[t] = "offered" /\ c_conn' = cv'[t]]_vars

\* an auth round trip was refused while an earlier connection was stored: the
\* socket and the QUIC connection of the attempt are closed, the stored
\* pointer still names the earlier connection
C18_Witness ==
    /\ ret.err = "AuthenticationFailed"
    /\ ret.raw = "closed" /\ ret.quic = "closed"
    /\ c_conn = 1 /\ Len(conns) = 1

\* C19 as stated, for the client: offerNew spawns loopMessages only if UDP is
\* enabled locally and the AuthResponse has udp_enabled = true. (For the
\* server: ServeHTTP spawns loopMessages only if the service's UDP is enabled.)
C19_Original ==
    /\ \A i \in Stored : conns[i].loop => (~c_udpDisabled /\ conns[i].authUDP)
    /\ loops > 0 => ~service.udpDisabled

\* ======================================= claims, congestion control, client
\* the smaller of two rates
Min(a, b) == IF a < b THEN a ELSE b

\* the client-side policy as C12 states it: actual_tx is min(rx, send_bps) when
\* rx is non-zero and send_bps when rx is 0; BBR when rx_auto is set or
\* actual_tx is 0, else Brutal at actual_tx
ClientPolicy(rx, rxAuto, sendBPS) ==
    LET actual_tx == IF rx # 0 THEN Min(rx, sendBPS) ELSE sendBPS
    IN  IF rxAuto \/ actual_tx = 0
        THEN [kind |-> "bbr", bps |-> 0]
        ELSE [kind |-> "brutal", bps |-> actual_tx]

\* C12: for all values of the auth response (rx, rx_auto) and the client's
\* send_bps, a successful offerNew installs exactly one congestion controller
\* on the connection: BBR if rx_auto is true or the negotiated tx is 0,
\* otherwise Brutal at actual_tx = min(rx, send_bps) when rx is non-zero and
\* send_bps when rx is 0.
C12_ClientCongestion ==
    \A i \in Stored :
        conns[i].cc = <<ClientPolicy(srvResponse.Rx, srvResponse.RxAuto, c_sendBPS)>>

\* a connection was stored with Brutal at the server's rx, which is below the
\* client's send_bps
C12_Witness ==
    \E i \in Stored :
        /\ conns[i].cc[1] = [kind |-> "brutal", bps |-> srvResponse.Rx]
        /\ srvResponse.Rx < c_sendBPS

\* ======================================= claims, congestion control, server
\* the server-side policy as C13 states it, for the cases it covers: BBR when
\* ignore_client_bandwidth is set; otherwise, for request.rx > 0, Brutal at
\* min(sendBPS, request.rx) when sendBPS > 0 and at request.rx when sendBPS = 0
ServerPolicyHolds(cc, ignore, sendBPS, rx) ==
    /\ ignore => cc = [kind |-> "bbr", bps |-> 0]
    /\ (~ignore /\ rx > 0)
          => cc = [kind |-> "brutal",
                   bps |-> IF sendBPS > 0 THEN Min(sendBPS, rx) ELSE rx]

\* a ServeHTTP goroutine passes the congestion-control selection: it installs
\* one controller, the one the policy names for its request
SelectionStep ==
    \A h \in Handlers :
      (hpc[h] = "setCC" /\ hpc'[h] # "setCC")
        => /\ Len(ccInstalls') = Len(ccInstalls) + 1
           /\ SubSeq(ccInstalls', 1, Len(ccInstalls)) = ccInstalls
           /\ ServerPolicyHolds(ccInstalls'[Len(ccInstalls')],
                                service.ignoreClientBandwidth, service.sendBPS,
                                hloc[h].req.rx)

\* C13: on a successful auth, for all values of ignore_client_bandwidth, the
\* service's sendBPS and request.rx: if ignore_client_bandwidth is set, BBR is
\* installed and the AuthResponse advertises rx as auto; otherwise, if
\* request.rx > 0, Brutal is installed at min(sendBPS, request.rx) when
\* sendBPS > 0 and at request.rx when sendBPS = 0.
C13_ServerCongestion ==
    /\ [][SelectionStep]_vars
    /\ []((lastResp.via = "auth" /\ service.ignoreClientBandwidth)
             => lastResp.header.RxAuto)

\* a first auth whose request.rx is above the service's non-zero sendBPS has
\* installed Brutal at sendBPS
C13_Witness ==
    \E h \in Handlers :
        /\ hpc[h] = "respond"
        /\ service.sendBPS > 0 /\ hloc[h].req.rx > service.sendBPS
        /\ ccInstalls = <<[kind |-> "brutal", bps |-> service.sendBPS]>>

\* ================================================ claims, end to end
Brutal(bps) == [kind |-> "brutal", bps |-> bps]

\* UDP is enabled on both sides: the session answered with udp_enabled and
\* started its message loop, the connection has UDP enabled and its loop runs
UDPEnabledBothSides(i) ==
    /\ lastResp.header.UDPEnabled /\ loops >= 1
    /\ ~conns[i].udpDisabled /\ conns[i].loop

\* C14 as stated: after a successful offer the client's controller is Brutal at
\* 50,000,000 (the server echoing the client's rx), the server's is Brutal at
\* 50,000,000, and UDP is enabled on both sides.
C14_Original ==
    \A i \in Stored :
        /\ conns[i].cc = <<Brutal(50000000)>>
        /\ ccInstalls = <<Brutal(50000000)>>
        /\ UDPEnabledBothSides(i)

\* C14, amended: scenario 1, after a successful offer: the server's
\* AuthResponse carries the service's own receive_bps, so the client's
\* controller is Brutal at 100,000,000 when that is 0 (not configured) and at
\* min(receive_bps, 100,000,000) otherwise; the server's controller is Brutal
\* at min(80,000,000, 50,000,000) = 50,000,000; UDP is enabled on both sides.
C14_Scenario1 ==
    \A i \in Stored :
        /\ lastResp.header.Rx = service.receiveBPS
        /\ conns[i].cc = <<Brutal(IF service.receiveBPS = 0 THEN 100000000
                                  ELSE Min(service.receiveBPS, 100000000))>>
        /\ ccInstalls = <<Brutal(50000000)>>
        /\ UDPEnabledBothSides(i)

\* against a service with no receive_bps the offer succeeded, the client runs
\* Brutal at its own send_bps, and ListenPacket returned a handle
C14_Witness ==
    /\ service.receiveBPS = 0
    /\ Len(conns) = 1 /\ conns[1].cc = <<Brutal(100000000)>>
    /\ ret.op = "ListenPacket" /\ ret.handle # 0

\* ================================================ claims, session close
\* closeWithError has run for the session: connDone and the QUIC connection
\* are closed
SessionClosed == s_connDone /\ s_quicConn = "closed" /\ s_closeRuns >= 1

\* the closing body of server closeWithError has run at most once
CloseBodyAtMostOnce == s_closeRuns <= 1

\* C20 as stated: for every accepted QUIC connection, once the service context
\* is cancelled, eventually (under fair scheduling) closeWithError runs for the
\* session, closing its done channel and its QUIC connection; and the closing
\* body of closeWithError executes at most once per session.
C20_Original ==
    /\ []CloseBodyAtMostOnce
    /\ ctxCancelled ~> SessionClosed

\* C20, amended: for every session that an auth POST has authenticated, once
\* the service context is cancelled, eventually (under fair scheduling)
\* closeWithError runs for that session, closing its done channel and its QUIC
\* connection; the closing body of closeWithError executes at most once per
\* session.
C20_CancelCloses ==
    /\ []CloseBodyAtMostOnce
    /\ (authenticated /\ ctxCancelled) ~> SessionClosed

\* two auth POSTs were handled at once and each started a watcher; the context
\* was cancelled, both watchers have returned, and the body ran once
C20_Witness ==
    /\ Len(ccInstalls) = 2
    /\ propagators = 0
    /\ ctxCancelled
    /\ SessionClosed /\ s_closeRuns = 1

\* ================================================ claims, session table
\* the handles returned on connection i and not yet closed
OpenHandles(i) == {h \in Returned : handles[h].conn = i /\ ~handles[h].closed}

\* the session table of connection i holds exactly the ids of its open handles,
\* each mapped to its own packet conn
TableExact(i) ==
    conns[i].udpConnMap = {<<handles[h].id, h>> : h \in OpenHandles(i)}

\* this step closes handle h
HandleCloseStep(h) == ~handles[h].closed /\ handles'[h].closed

\* the close of handle h removes its own entry from the table of its
\* connection, and leaves every other entry, the session counter and every
\* other connection as they were
ClosesOnlyOwn(h) ==
    LET i == handles[h].conn IN
    /\ conns'[i].udpConnMap = conns[i].udpConnMap \ {<<handles[h].id, h>>}
    /\ <<handles[h].id, h>> \in conns[i].udpConnMap
    /\ conns'[i].udpSessionID = conns[i].udpSessionID
    /\ \A j \in 1 .. Len(conns) : j # i => conns'[j] = conns[j]

\* C21 as stated: after any interleaving of ListenPacket calls and handle
\* closes on one client connection, the session table contains exactly the ids
\* of the handles returned and not yet closed, each mapped to its own packet
\* conn; closing one handle removes only its own id and leaves every other
\* entry and the session counter unchanged.
C21_Original ==
    /\ [](\A i \in 1 .. Len(conns) : TableExact(i))
    /\ [][\A h \in Returned : HandleCloseStep(h) => ClosesOnlyOwn(h)]_vars

\* C21, amended: on a client connection on which fewer than 2^32 session ids
\* have been allocated (udpSessionID has not wrapped), after any interleaving
\* of ListenPacket calls and handle closes the session table contains exactly
\* the ids of the handles returned and not yet closed, each mapped to its own
\* packet conn; closing one handle removes only its own id and leaves every
\* other entry and the session counter unchanged.
C21_SessionTable ==
    /\ [](\A i \in 1 .. Len(conns) : ~conns[i].wrapped => TableExact(i))
    /\ [][\A h \in Returned :
            (HandleCloseStep(h) /\ ~conns[handles[h].conn].wrapped)
               => ClosesOnlyOwn(h)]_vars

\* two handles were returned on one connection whose counter has not wrapped;
\* the second was closed, and the table holds the entry of the first alone
C21_Witness ==
    \E h1, h2 \in Returned :
      /\ h1 < h2
      /\ SameConn(h1, h2)
      /\ ~conns[handles[h1].conn].wrapped
      /\ ~handles[h1].closed /\ handles[h2].closed
      /\ conns[handles[h1].conn].udpConnMap = {<<handles[h1].id, h1>>}

=============================================================================
